---- MODULE Spec2Model ----
(***************************************************************************)
(* Runway forecasting dashboard (cfo-dashboard.tsx) and the panels it      *)
(* shows: alerts (enhanced-features/alerts-notifications.tsx), budget      *)
(* tracker (enhanced-features/budget-tracker.tsx) and cash-flow            *)
(* categories (cash-flow-categories.tsx).                                  *)
(*                                                                         *)
(* The state is the React state of the components; the actions are their   *)
(* event handlers and timer callbacks; calculateForecast is a pure         *)
(* operator over the dashboard state, evaluated at every render as         *)
(* baseResult and currentResult.  The dashboard's saved scenarios, chart   *)
(* effect and CSV export are part of the model.  Each specification below  *)
(* takes some handlers of one component from the state after               *)
(* construction.                                                           *)
(*                                                                         *)
(* Numbers: the code computes in IEEE doubles.  The model computes in      *)
(* exact integer arithmetic, which agrees with the code on the input       *)
(* values used here (whole rupee amounts, whole percentages whose revenue  *)
(* product is a whole number).  The runway quotient is kept as an exact    *)
(* fraction num/den, or as +infinity.  A number parsed from the text of a  *)
(* field is NaN or a decimal mant / 10^scale.                              *)
(***************************************************************************)
EXTENDS Integers, Sequences, FiniteSets, TLC

VARIABLES inputs, headcount, scenarioA, scenarioB, scenarioCounter,
          isRiskSimActive, now,
          alerts, newAlert, notificationPermission, alertTicks, notified,
          mounted, chatTimers, memoTimers, insightInterval, chatHistory,
          chatInput, memo, insights, insightTicks, staleCallbacks,
          budgetItems, newCategory, newBudget,
          items, newItem,
          theme, chart, chartDeps, csvContent

(* CFODashboard state                                                      *)
dashVars == <<inputs, headcount, scenarioA, scenarioB, scenarioCounter,
              isRiskSimActive>>

(* AlertsNotifications state; alertTicks counts the interval callbacks     *)
(* run so far and notified holds the ids for which the latest handler      *)
(* called showNotification.                                                *)
alertVars == <<alerts, newAlert, notificationPermission, alertTicks, notified>>

(* CFODashboard chat, memo and insights, with the timers they start:       *)
(* chatTimers and memoTimers hold what the pending timeouts captured, in    *)
(* the order they were set; insightInterval says the interval is set;      *)
(* insightTicks counts its callbacks; staleCallbacks counts the timer       *)
(* callbacks that called a state setter after the dashboard was torn down. *)
chatVars == <<mounted, chatTimers, memoTimers, insightInterval, chatHistory,
              chatInput, memo, insights, insightTicks, staleCallbacks>>

(* BudgetTracker state                                                     *)
budgetVars == <<budgetItems, newCategory, newBudget>>

(* CashFlowCategories state                                                *)
cashVars == <<items, newItem>>

(* CFODashboard chart and export: theme is the theme of next-themes,       *)
(* chart is what chartInstanceRef.current plots, chartDeps holds the       *)
(* dependency values [theme, scenarioCounter] of the last run of the chart *)
(* effect, and csvContent holds the lines of the last file exportToCSV     *)
(* handed to the browser (none before the first export).                   *)
viewVars == <<theme, chart, chartDeps, csvContent>>

(* Everything but the forecast state and the clock.                        *)
panelVars == <<alertVars, chatVars, budgetVars, cashVars, viewVars>>

(* What the handlers of each component leave alone.                        *)
outsideAlerts == <<dashVars, now, chatVars, budgetVars, cashVars, viewVars>>
outsideChat == <<dashVars, now, alertVars, budgetVars, cashVars, viewVars>>
outsideBudget == <<dashVars, now, alertVars, chatVars, cashVars, viewVars>>
outsideCash == <<dashVars, now, alertVars, chatVars, budgetVars, viewVars>>

vars == <<dashVars, now, panelVars>>

-----------------------------------------------------------------------------
(* Bounds of the model                                                     *)

MaxRoles == 2
MaxCounter == 5
MaxClock == 1

(* Values typed into the numeric fields (besides 0, which a failed parse   *)
(* or an empty field yields).                                              *)
SpendValues == {-400000, 2000000}
OneTimeValues == {5000000, 6000000}
PriceValues == {50, 100}
SalaryValues == {-300000, 500000}
StartMonthValues == {3, 24}
RoleLabels == {"Engineer"}

-----------------------------------------------------------------------------
(* Program constants                                                       *)

initialData ==
    [bankBalance |-> 5000000, monthlyRevenue |-> 800000, monthlyCosts |-> 1200000]

ForecastMonths == 25

Null == [null |-> TRUE]

Max(a, b) == IF a >= b THEN a ELSE b

-----------------------------------------------------------------------------
(* calculateForecast                                                       *)

(* Variant: the optional field is ignored.                                 *)
LocalHeadcount_StateOnly(params) == headcount

(* params.headcount || headcount : the optional field, else the state.     *)
LocalHeadcount(params) ==
    IF "headcount" \in DOMAIN params THEN params.headcount ELSE headcount

(* .reduce((sum, r) => sum + r.salary, 0)                                  *)
RECURSIVE SumSalary(_)
SumSalary(roles) ==
    IF roles = <<>> THEN 0
    ELSE SumSalary(SubSeq(roles, 1, Len(roles) - 1)) + roles[Len(roles)].salary

(* Variant: a role counts from its start month on.                         *)
StartedBefore_Inclusive(r, month) == r.startMonth <= month

StartedBefore(r, month) == r.startMonth < month

MonthlyHeadcountCost(params, month) ==
    SumSalary(SelectSeq(LocalHeadcount(params), LAMBDA r : StartedBefore(r, month)))

(* initialData.monthlyRevenue * (1 + params.priceIncrease / 100)           *)
MonthlyRevenue(params) ==
    (initialData.monthlyRevenue * (100 + params.priceIncrease)) \div 100

MonthlyBurn(params, month) ==
    initialData.monthlyCosts + params.monthlySpend
        + MonthlyHeadcountCost(params, month) - MonthlyRevenue(params)

StartBalance(params) == initialData.bankBalance - params.oneTimeSpend

(* Variant: the floored value is carried into the next month.              *)
NextBalance_FromFloored(currentBalance, monthlyBurn) ==
    Max(0, currentBalance) - monthlyBurn

(* Variant: the burn is added.                                             *)
NextBalance_Adds(currentBalance, monthlyBurn) == currentBalance + monthlyBurn

NextBalance(currentBalance, monthlyBurn) == currentBalance - monthlyBurn

(* Variant: entries are also capped at the opening balance.                *)
PushedEntry_Capped(currentBalance) ==
    IF currentBalance > initialData.bankBalance
    THEN initialData.bankBalance
    ELSE Max(0, currentBalance)

PushedEntry(currentBalance) == Max(0, currentBalance)

(* The for loop: st.month is the loop variable, st.currentBalance and      *)
(* st.forecast are the two locals; st.balances records the value of        *)
(* currentBalance after each iteration (history of the local, balances[1]  *)
(* being its initial value).                                               *)
RECURSIVE ForecastLoop(_, _)
ForecastLoop(params, st) ==
    IF st.month < ForecastMonths
    THEN LET bal == NextBalance(st.currentBalance, MonthlyBurn(params, st.month))
         IN ForecastLoop(params,
                [month |-> st.month + 1,
                 currentBalance |-> bal,
                 forecast |-> Append(st.forecast, PushedEntry(bal)),
                 balances |-> Append(st.balances, bal)])
    ELSE st

ForecastRun(params) ==
    ForecastLoop(params,
        [month |-> 1,
         currentBalance |-> StartBalance(params),
         forecast |-> <<StartBalance(params)>>,
         balances |-> <<StartBalance(params)>>])

(* Variant: only roles already started in month 1 are counted.             *)
DisplayBurn_StartedOnly(params) ==
    initialData.monthlyCosts + params.monthlySpend
        + MonthlyHeadcountCost(params, 1) - MonthlyRevenue(params)

DisplayBurn(params) ==
    initialData.monthlyCosts + params.monthlySpend
        + SumSalary(LocalHeadcount(params)) - MonthlyRevenue(params)

(* Variant: a zero burn takes the dividing branch.                         *)
BurnIsPositive_OrZero(displayBurn) == displayBurn >= 0

BurnIsPositive(displayBurn) == displayBurn > 0

(* A finite runway is the exact fraction num/den; Number.POSITIVE_INFINITY *)
(* is the record with inf = TRUE.                                          *)
PositiveInfinity == [inf |-> TRUE, num |-> 0, den |-> 1]

(* Variant: the quotient is taken of the bank balance, without the         *)
(* one-time spend.                                                         *)
DisplayRunway_IgnoresOneTime(params) ==
    IF BurnIsPositive(DisplayBurn(params))
    THEN [inf |-> FALSE, num |-> initialData.bankBalance, den |-> DisplayBurn(params)]
    ELSE PositiveInfinity

DisplayRunway(params) ==
    IF BurnIsPositive(DisplayBurn(params))
    THEN [inf |-> FALSE, num |-> StartBalance(params), den |-> DisplayBurn(params)]
    ELSE PositiveInfinity

calculateForecast(params) ==
    [runway |-> DisplayRunway(params),
     burn |-> DisplayBurn(params),
     forecastData |-> ForecastRun(params).forecast]

baseResult ==
    calculateForecast([monthlySpend |-> 0, oneTimeSpend |-> 0, priceIncrease |-> 0,
                       headcount |-> <<>>])

currentResult == calculateForecast(inputs)

(* forecastData[m], m = 0..24 (sequences are 1-based here).                *)
Month(fd, m) == fd[m + 1]

-----------------------------------------------------------------------------
(* State and handlers                                                      *)

DashboardInit ==
    /\ inputs = [monthlySpend |-> 0, oneTimeSpend |-> 0, priceIncrease |-> 0]
    /\ headcount = <<>>
    /\ scenarioA = Null
    /\ scenarioB = Null
    /\ scenarioCounter = 0
    /\ isRiskSimActive = FALSE
    /\ now = 0

(* Date.now() advancing between events.                                    *)
ClockTick ==
    /\ now < MaxClock
    /\ now' = now + 1
    /\ UNCHANGED <<inputs, headcount, scenarioA, scenarioB, scenarioCounter,
                   isRiskSimActive>>
    /\ UNCHANGED panelVars

SetMonthlySpend ==
    \E v \in SpendValues \cup {0} :
        /\ inputs' = [inputs EXCEPT !.monthlySpend = v]
        /\ UNCHANGED <<headcount, scenarioA, scenarioB, scenarioCounter,
                       isRiskSimActive, now>>
        /\ UNCHANGED panelVars

SetOneTimeSpend ==
    \E v \in OneTimeValues \cup {0} :
        /\ inputs' = [inputs EXCEPT !.oneTimeSpend = v]
        /\ UNCHANGED <<headcount, scenarioA, scenarioB, scenarioCounter,
                       isRiskSimActive, now>>
        /\ UNCHANGED panelVars

SetPriceIncrease ==
    \E v \in PriceValues \cup {0} :
        /\ inputs' = [inputs EXCEPT !.priceIncrease = v]
        /\ UNCHANGED <<headcount, scenarioA, scenarioB, scenarioCounter,
                       isRiskSimActive, now>>
        /\ UNCHANGED panelVars

NewRole(role, salary, startMonth) ==
    [id |-> now, role |-> role, salary |-> salary, startMonth |-> startMonth]

addRole ==
    /\ Len(headcount) < MaxRoles
    /\ scenarioCounter < MaxCounter
    /\ headcount' = Append(headcount, NewRole("", 100000, 0))
    /\ scenarioCounter' = scenarioCounter + 1
    /\ UNCHANGED <<inputs, scenarioA, scenarioB, isRiskSimActive, now>>
    /\ UNCHANGED panelVars

removeRole ==
    \E i \in 1..Len(headcount) :
        LET id == headcount[i].id IN
        /\ scenarioCounter < MaxCounter
        /\ headcount' = SelectSeq(headcount, LAMBDA r : r.id # id)
        /\ scenarioCounter' = scenarioCounter + 1
        /\ UNCHANGED <<inputs, scenarioA, scenarioB, isRiskSimActive, now>>
        /\ UNCHANGED panelVars

(* Variant: the field is replaced in every role.                           *)
UpdatedRoles_Everywhere(id, field, value) ==
    [i \in 1..Len(headcount) |-> [headcount[i] EXCEPT ![field] = value]]

UpdatedRoles(id, field, value) ==
    [i \in 1..Len(headcount) |->
        IF headcount[i].id = id
        THEN [headcount[i] EXCEPT ![field] = value]
        ELSE headcount[i]]

FieldValues(field) ==
    CASE field = "role" -> RoleLabels \cup {""}
      [] field = "salary" -> SalaryValues \cup {0}
      [] field = "startMonth" -> StartMonthValues \cup {0}

updateRole ==
    \E i \in 1..Len(headcount), field \in {"role", "salary", "startMonth"} :
        \E value \in FieldValues(field) :
            /\ scenarioCounter < MaxCounter
            /\ headcount' = UpdatedRoles(headcount[i].id, field, value)
            /\ scenarioCounter' = scenarioCounter + 1
            /\ UNCHANGED <<inputs, scenarioA, scenarioB, isRiskSimActive, now>>
            /\ UNCHANGED panelVars

(* The onChange handler of the salary field of a role.                     *)
updateSalary ==
    /\ updateRole
    /\ \A i \in 1..Len(headcount) :
          /\ headcount'[i].role = headcount[i].role
          /\ headcount'[i].startMonth = headcount[i].startMonth

(* Variant: the headcount list is kept.                                    *)
resetAll_KeepsHeadcount ==
    /\ inputs' = [monthlySpend |-> 0, oneTimeSpend |-> 0, priceIncrease |-> 0]
    /\ scenarioA' = Null
    /\ scenarioB' = Null
    /\ isRiskSimActive' = FALSE
    /\ scenarioCounter' = 0
    /\ UNCHANGED <<headcount, now>>
    /\ UNCHANGED panelVars

resetAll ==
    /\ inputs' = [monthlySpend |-> 0, oneTimeSpend |-> 0, priceIncrease |-> 0]
    /\ headcount' = <<>>
    /\ scenarioA' = Null
    /\ scenarioB' = Null
    /\ isRiskSimActive' = FALSE
    /\ scenarioCounter' = 0
    /\ UNCHANGED now
    /\ UNCHANGED panelVars

-----------------------------------------------------------------------------
(* Saved scenarios                                                         *)

(* Variant: the base result is stored with the inputs.                     *)
SavedResult_Base == baseResult

SavedResult == currentResult

(* The scenario object built by saveScenario: copies of inputs and         *)
(* headcount with the runway and the series of this render.                *)
Scenario ==
    [inputs |-> inputs, headcount |-> headcount,
     runway |-> SavedResult.runway, forecastData |-> SavedResult.forecastData]

(* Variant: the scenario is stored in both slots.                          *)
saveScenario_Both(type) ==
    /\ scenarioA' = Scenario
    /\ scenarioB' = Scenario
    /\ UNCHANGED <<inputs, headcount, scenarioCounter, isRiskSimActive, now>>
    /\ UNCHANGED panelVars

saveScenario(type) ==
    /\ IF type = "A"
       THEN scenarioA' = Scenario /\ UNCHANGED scenarioB
       ELSE scenarioB' = Scenario /\ UNCHANGED scenarioA
    /\ UNCHANGED <<inputs, headcount, scenarioCounter, isRiskSimActive, now>>
    /\ UNCHANGED panelVars

clearScenario(type) ==
    /\ IF type = "A"
       THEN scenarioA' = Null /\ UNCHANGED scenarioB
       ELSE scenarioB' = Null /\ UNCHANGED scenarioA
    /\ UNCHANGED <<inputs, headcount, scenarioCounter, isRiskSimActive, now>>
    /\ UNCHANGED panelVars

-----------------------------------------------------------------------------
(* Theme and chart                                                         *)

(* The two datasets initializeChart hands to new Chart(...).               *)
PlottedChart ==
    [base |-> baseResult.forecastData, current |-> currentResult.forecastData]

(* The dependency array [theme, scenarioCounter] of this render.           *)
ChartDepsNow == <<theme, scenarioCounter>>

ViewInit ==
    /\ theme = "system"
    /\ chart = Null
    /\ chartDeps = ChartDepsNow
    /\ csvContent = <<>>

(* setTheme(theme === "dark" ? "light" : "dark")                           *)
toggleTheme ==
    /\ theme' = IF theme = "dark" THEN "light" ELSE "dark"
    /\ UNCHANGED <<dashVars, now, chart, chartDeps, csvContent>>
    /\ UNCHANGED <<alertVars, chatVars, budgetVars, cashVars>>

(* The chart effect: React runs it after a render whose dependency values  *)
(* differ from those of its last run; initializeChart then replaces the    *)
(* chart by one built from baseResult and currentResult of that render.    *)
(* Taken while the runway tab, which holds the canvas, is shown; at        *)
(* construction the overview tab is shown and the effect finds no canvas.  *)
chartEffect ==
    /\ chartDeps # ChartDepsNow
    /\ chartDeps' = ChartDepsNow
    /\ chart' = PlottedChart
    /\ UNCHANGED <<dashVars, now, theme, csvContent>>
    /\ UNCHANGED <<alertVars, chatVars, budgetVars, cashVars>>

-----------------------------------------------------------------------------
(* Text of input fields and its parsing                                    *)
(*                                                                         *)
(* A text is a sequence of one-character strings.  A parsed number is      *)
(* either NaN or the decimal mant / 10^scale.                              *)

Digits == {"0", "1", "2", "3", "4", "5", "6", "7", "8", "9"}

DigitValue(c) ==
    CASE c = "0" -> 0 [] c = "1" -> 1 [] c = "2" -> 2 [] c = "3" -> 3
      [] c = "4" -> 4 [] c = "5" -> 5 [] c = "6" -> 6 [] c = "7" -> 7
      [] c = "8" -> 8 [] c = "9" -> 9

NaN == [nan |-> TRUE, mant |-> 0, scale |-> 0]

Number(mant, scale) == [nan |-> FALSE, mant |-> mant, scale |-> scale]

RECURSIVE Pow10(_)
Pow10(n) == IF n = 0 THEN 1 ELSE 10 * Pow10(n - 1)

(* Length of the longest run of digits of text starting at position i.     *)
RECURSIVE DigitRun(_, _)
DigitRun(text, i) ==
    IF i <= Len(text) /\ text[i] \in Digits THEN 1 + DigitRun(text, i + 1) ELSE 0

(* Value of the digits text[i..i+n-1] read as a decimal numeral.           *)
RECURSIVE DigitsValue(_, _, _)
DigitsValue(text, i, n) ==
    IF n = 0 THEN 0
    ELSE 10 * DigitsValue(text, i, n - 1) + DigitValue(text[i + n - 1])

SignLength(text) == IF Len(text) > 0 /\ text[1] \in {"-", "+"} THEN 1 ELSE 0

Signed(text, v) == IF Len(text) > 0 /\ text[1] = "-" THEN 0 - v ELSE v

(* Number.parseInt(text): optional sign, then the longest digit prefix;    *)
(* NaN when there is no digit there.                                       *)
ParseInt(text) ==
    LET start == SignLength(text) + 1
        n == DigitRun(text, start)
    IN IF n = 0 THEN NaN ELSE Number(Signed(text, DigitsValue(text, start, n)), 0)

(* Number.parseFloat(text): optional sign, digits, optionally "." and      *)
(* digits; NaN when neither part has a digit.                              *)
ParseFloat(text) ==
    LET start == SignLength(text) + 1
        n == DigitRun(text, start)
        dot == start + n
        f == IF dot <= Len(text) /\ text[dot] = "." THEN DigitRun(text, dot + 1) ELSE 0
        whole == DigitsValue(text, start, n)
        frac == DigitsValue(text, dot + 1, f)
    IN IF n = 0 /\ f = 0 THEN NaN
       ELSE Number(Signed(text, whole * Pow10(f) + frac), f)

(* x || 0 on a number: NaN and 0 are falsy.                                *)
OrZero(num) == IF num.nan \/ num.mant = 0 THEN Number(0, 0) ELSE num

(* The value an <input type="number"> reports for the typed text: the      *)
(* text when it is a valid floating-point number (optional "-", digits     *)
(* with an optional "." and digits, or "." and digits), else "".           *)
NumberInputValue(typed) ==
    LET start == (IF Len(typed) > 0 /\ typed[1] = "-" THEN 1 ELSE 0) + 1
        n == DigitRun(typed, start)
        dot == start + n
        f == IF dot <= Len(typed) /\ typed[dot] = "." THEN DigitRun(typed, dot + 1) ELSE 0
        used == IF f > 0 THEN dot + f ELSE dot - 1
    IN IF (n > 0 \/ f > 0) /\ used = Len(typed) THEN typed ELSE <<>>

DigitChar(d) ==
    CASE d = 0 -> "0" [] d = 1 -> "1" [] d = 2 -> "2" [] d = 3 -> "3"
      [] d = 4 -> "4" [] d = 5 -> "5" [] d = 6 -> "6" [] d = 7 -> "7"
      [] d = 8 -> "8" [] d = 9 -> "9"

(* n.toString() for a whole number n >= 0.                                 *)
RECURSIVE NumToText(_)
NumToText(n) ==
    IF n < 10 THEN <<DigitChar(n)>>
    ELSE Append(NumToText(n \div 10), DigitChar(n % 10))

-----------------------------------------------------------------------------
(* CSV export (cfo-dashboard.tsx)                                          *)
(*                                                                         *)
(* A field is a text; a fixed label is one element of it, a number is      *)
(* written character by character.  The file content is kept as the        *)
(* sequence of its lines (no field holds a line break).                    *)

(* The default locales of the browsers exporting: toLocaleString() groups  *)
(* the digits with "," under en-US and with "." under de-DE.               *)
Locales == {"en-US", "de-DE"}

(* The digits of n >= 0 in groups of three from the right.                 *)
RECURSIVE Grouped(_, _)
Grouped(n, separator) ==
    IF n < 1000 THEN NumToText(n)
    ELSE Grouped(n \div 1000, separator)
            \o <<separator, DigitChar((n \div 100) % 10), DigitChar((n \div 10) % 10),
                 DigitChar(n % 10)>>

(* n.toLocaleString() for a whole number n.                                *)
ToLocaleString(n, locale) ==
    LET separator == IF locale = "en-US" THEN "," ELSE "."
    IN IF n < 0 THEN <<"-">> \o Grouped(0 - n, separator) ELSE Grouped(n, separator)

(* runway.toFixed(1): one decimal, ties away from zero; "Infinity" for     *)
(* Number.POSITIVE_INFINITY.                                               *)
ToFixed1(runway) ==
    IF runway.inf THEN <<"Infinity">>
    ELSE LET magnitude == IF runway.num < 0 THEN 0 - runway.num ELSE runway.num
             tenths == (20 * magnitude + runway.den) \div (2 * runway.den)
         IN (IF runway.num < 0 THEN <<"-">> ELSE <<>>)
               \o NumToText(tenths \div 10) \o <<".", DigitChar(tenths % 10)>>

(* forecastData[i]?.toLocaleString() || ""                                 *)
ForecastField(forecastData, i, locale) ==
    IF i < Len(forecastData) THEN ToLocaleString(forecastData[i + 1], locale) ELSE <<>>

(* The rows of csvData, each a sequence of fields (the rupee sign of the   *)
(* labels is written Rs).                                                  *)
csvData(locale) ==
    LET base == baseResult
        current == currentResult
    IN << <<<<"Metric">>, <<"Base Case">>, <<"Current Scenario">>>>,
          <<<<"Runway (months)">>, ToFixed1(base.runway), ToFixed1(current.runway)>>,
          <<<<"Monthly Burn (Rs)">>, ToLocaleString(base.burn, locale),
            ToLocaleString(current.burn, locale)>>,
          <<<<"Monthly Spend (Rs)">>, <<"0">>, ToLocaleString(inputs.monthlySpend, locale)>>,
          <<<<"One-time Spend (Rs)">>, <<"0">>, ToLocaleString(inputs.oneTimeSpend, locale)>>,
          <<<<"Price Change (%)">>, <<"0">>, NumToText(inputs.priceIncrease)>>,
          <<<<>>>>,
          <<<<"Month">>, <<"Base Forecast">>, <<"Current Forecast">>>> >>
       \o [i \in 1..25 |->
              << <<"M">> \o NumToText(i - 1),
                 ForecastField(base.forecastData, i - 1, locale),
                 ForecastField(current.forecastData, i - 1, locale) >>]

(* row.join(",")                                                           *)
RECURSIVE JoinRow(_)
JoinRow(row) ==
    IF Len(row) = 1 THEN row[1]
    ELSE JoinRow(SubSeq(row, 1, Len(row) - 1)) \o <<",">> \o row[Len(row)]

(* The download: csvData.map((row) => row.join(",")).join("\n").           *)
exportToCSV ==
    /\ \E locale \in Locales :
          LET data == csvData(locale)
          IN csvContent' = [r \in 1..Len(data) |-> JoinRow(data[r])]
    /\ UNCHANGED <<dashVars, now, theme, chart, chartDeps>>
    /\ UNCHANGED <<alertVars, chatVars, budgetVars, cashVars>>

-----------------------------------------------------------------------------
(* AlertsNotifications (enhanced-features/alerts-notifications.tsx)        *)
(*                                                                         *)
(* currentValue is kept in hundredths (2.1 is 210); a threshold is a       *)
(* parsed number and is compared in hundredths.                            *)

MaxTicks == 8
MaxAlerts == 4

(* (Math.random() - 0.5) * 0.1 lies in [-0.05, 0.05); in thousandths.      *)
VariationValues == {-50, 49}

(* The draws of one tick, one per alert: every alert draws the same value. *)
Variations(n) == {[i \in 1..n |-> v] : v \in VariationValues}

(* The templates clicked.                                                  *)
TemplateChoices == {1}

(* Date.now() at the model's clock value; far above the literal ids.       *)
EpochMs == 1000
DateNow == EpochMs + now

Hundredths(num) == (num.mant * 100) \div Pow10(num.scale)

thresholdTemplates ==
    << [name |-> "Critical Runway Alert",
        description |-> "Alert when cash runway drops below 3 months",
        metric |-> "runway", threshold |-> 3, condition |-> "below", type |-> "critical"],
       [name |-> "Low Runway Warning",
        description |-> "Warning when cash runway drops below 6 months",
        metric |-> "runway", threshold |-> 6, condition |-> "below", type |-> "warning"],
       [name |-> "High Burn Rate",
        description |-> "Alert when monthly burn exceeds $50K",
        metric |-> "burn_rate", threshold |-> 50000, condition |-> "above", type |-> "warning"],
       [name |-> "Revenue Target",
        description |-> "Celebrate when monthly revenue exceeds $100K target",
        metric |-> "revenue", threshold |-> 100000, condition |-> "above", type |-> "info"],
       [name |-> "Low Cash Balance",
        description |-> "Critical alert when cash balance drops below $25K",
        metric |-> "cash_balance", threshold |-> 25000, condition |-> "below", type |-> "critical"] >>

InitialAlerts ==
    << [id |-> 1, title |-> "Critical Cash Runway",
        description |-> "Cash runway below 3 months - immediate action required",
        type |-> "critical", threshold |-> Number(3, 0), currentValue |-> 210,
        isActive |-> TRUE, metric |-> "runway", condition |-> "below",
        emailNotifications |-> TRUE, pushNotifications |-> TRUE],
       [id |-> 2, title |-> "High Burn Rate Alert",
        description |-> "Monthly burn rate exceeds $50K threshold",
        type |-> "warning", threshold |-> Number(50000, 0), currentValue |-> 6200000,
        isActive |-> TRUE, metric |-> "burn_rate", condition |-> "above",
        emailNotifications |-> TRUE, pushNotifications |-> FALSE],
       [id |-> 3, title |-> "Revenue Milestone",
        description |-> "Celebrate when monthly revenue exceeds $100K target",
        type |-> "info", threshold |-> Number(100000, 0), currentValue |-> 12500000,
        isActive |-> FALSE, metric |-> "revenue", condition |-> "above",
        emailNotifications |-> FALSE, pushNotifications |-> TRUE] >>

BlankAlert ==
    [title |-> "", description |-> "", type |-> "warning", threshold |-> <<>>,
     metric |-> "runway", condition |-> "below",
     emailNotifications |-> TRUE, pushNotifications |-> FALSE]

AlertsInit ==
    /\ alerts = InitialAlerts
    /\ newAlert = BlankAlert
    /\ notificationPermission = "default"
    /\ alertTicks = 0
    /\ notified = {}

(* Comparisons of a value with a threshold; every comparison with NaN is   *)
(* false.                                                                  *)
Below(value, threshold) == ~threshold.nan /\ value < Hundredths(threshold)
Above(value, threshold) == ~threshold.nan /\ value > Hundredths(threshold)
AtLeast(value, threshold) == ~threshold.nan /\ value >= Hundredths(threshold)
AtMost(value, threshold) == ~threshold.nan /\ value <= Hundredths(threshold)

(* Variant: the variation is added to the value.                           *)
Jitter_Additive(currentValue, variation) == currentValue + variation

(* alert.currentValue * (1 + variation), variation in thousandths.         *)
Jitter(currentValue, variation) ==
    currentValue + (currentValue * variation) \div 1000

(* Variant: the condition holds of the new value, whatever the old one.    *)
ThresholdCrossed_Level(alert, newValue) ==
    \/ /\ alert.condition = "below"
       /\ Below(newValue, alert.threshold)
    \/ /\ alert.condition = "above"
       /\ Above(newValue, alert.threshold)

ThresholdCrossed(alert, newValue) ==
    \/ /\ alert.condition = "below"
       /\ Below(newValue, alert.threshold)
       /\ AtLeast(alert.currentValue, alert.threshold)
    \/ /\ alert.condition = "above"
       /\ Above(newValue, alert.threshold)
       /\ AtMost(alert.currentValue, alert.threshold)

(* Variant: without the test of isActive.                                   *)
Fires_AnyCrossing(alert, newValue) == ThresholdCrossed(alert, newValue)

Fires(alert, newValue) == ThresholdCrossed(alert, newValue) /\ ~alert.isActive

(* Variant: isActive is set to whether the threshold was crossed.          *)
TickedAlert_Reevaluated(alert, variation) ==
    LET newValue == Jitter(alert.currentValue, variation)
    IN [alert EXCEPT !.currentValue = newValue,
                     !.isActive = ThresholdCrossed(alert, newValue)]

TickedAlert(alert, variation) ==
    LET newValue == Jitter(alert.currentValue, variation)
    IN IF Fires(alert, newValue)
       THEN [alert EXCEPT !.currentValue = newValue, !.isActive = TRUE]
       ELSE [alert EXCEPT !.currentValue = newValue]

(* The alerts of this tick for which showNotification is called.           *)
ShownNotifications(variation) ==
    {alerts[i].id : i \in {j \in 1..Len(alerts) :
        /\ Fires(alerts[j], Jitter(alerts[j].currentValue, variation[j]))
        /\ alerts[j].pushNotifications}}

(* The 5 s interval callback.                                              *)
alertTick ==
    /\ alertTicks < MaxTicks
    /\ \E variation \in Variations(Len(alerts)) :
          /\ alerts' = [i \in 1..Len(alerts) |-> TickedAlert(alerts[i], variation[i])]
          /\ notified' = ShownNotifications(variation)
    /\ alertTicks' = alertTicks + 1
    /\ UNCHANGED <<newAlert, notificationPermission>>
    /\ UNCHANGED outsideAlerts

(* Notification.requestPermission() answered by the user; asked by the     *)
(* button, by the 2 s timer and by showNotification while "default".       *)
requestNotificationPermission ==
    /\ notificationPermission = "default"
    /\ \E permission \in {"granted", "denied"} :
          notificationPermission' = permission
    /\ notified' = {}
    /\ UNCHANGED <<alerts, newAlert, alertTicks>>
    /\ UNCHANGED outsideAlerts

applyTemplate ==
    \E t \in TemplateChoices :
        LET template == thresholdTemplates[t] IN
        /\ newAlert' = [title |-> template.name,
                        description |-> template.description,
                        type |-> template.type,
                        threshold |-> NumToText(template.threshold),
                        metric |-> template.metric,
                        condition |-> template.condition,
                        emailNotifications |-> TRUE,
                        pushNotifications |-> FALSE]
        /\ notified' = {}
        /\ UNCHANGED <<alerts, notificationPermission, alertTicks>>
        /\ UNCHANGED outsideAlerts

(* The onChange handlers of the new-alert form: each replaces one field.    *)
SetNewAlertField(field, values) ==
    \E value \in values :
        /\ newAlert' = [newAlert EXCEPT ![field] = value]
        /\ notified' = {}
        /\ UNCHANGED <<alerts, notificationPermission, alertTicks>>
        /\ UNCHANGED outsideAlerts

setNewAlertCondition == SetNewAlertField("condition", {"below", "above", "equals"})

CreatedAlert ==
    [id |-> DateNow, title |-> newAlert.title, description |-> newAlert.description,
     type |-> newAlert.type, threshold |-> ParseFloat(newAlert.threshold),
     currentValue |-> 0, isActive |-> TRUE, metric |-> newAlert.metric,
     condition |-> newAlert.condition,
     emailNotifications |-> newAlert.emailNotifications,
     pushNotifications |-> newAlert.pushNotifications]

addAlert ==
    /\ newAlert.title # "" /\ newAlert.description # "" /\ newAlert.threshold # <<>>
    /\ Len(alerts) < MaxAlerts
    /\ alerts' = Append(alerts, CreatedAlert)
    /\ newAlert' = BlankAlert
    /\ notified' = {}
    /\ UNCHANGED <<notificationPermission, alertTicks>>
    /\ UNCHANGED outsideAlerts

(* The buttons are rendered for the active alerts only.                    *)
dismissAlert ==
    \E i \in 1..Len(alerts) :
        /\ alerts[i].isActive
        /\ alerts' = [j \in 1..Len(alerts) |->
                         IF alerts[j].id = alerts[i].id
                         THEN [alerts[j] EXCEPT !.isActive = FALSE]
                         ELSE alerts[j]]
        /\ notified' = {}
        /\ UNCHANGED <<newAlert, notificationPermission, alertTicks>>
        /\ UNCHANGED outsideAlerts

deleteAlert ==
    \E i \in 1..Len(alerts) :
        /\ alerts[i].isActive
        /\ alerts' = SelectSeq(alerts, LAMBDA a : a.id # alerts[i].id)
        /\ notified' = {}
        /\ UNCHANGED <<newAlert, notificationPermission, alertTicks>>
        /\ UNCHANGED outsideAlerts

-----------------------------------------------------------------------------
(* CFODashboard: chat, board memo, insights (cfo-dashboard.tsx)            *)

MaxMessages == 2
MaxMemos == 1
MaxInsightTicks == 6

(* Texts typed into the chat field, and the draws of the insight picker.   *)
ChatTyped == {<<>>, <<" ">>, <<"h", "i">>, <<" ", "o", "k">>, <<"?">>}
InsightDraws == {1, 2}

mockInsights ==
    << "Revenue velocity increased 15% this month",
       "Marketing spend efficiency improved",
       "Customer acquisition costs trending down",
       "Subscription renewals above target",
       "Operating expenses within budget",
       "Cash flow positive trend detected" >>

MonitoringInsight == "AI is monitoring your data stream..."

Whitespace == {" "}

RECURSIVE TrimStart(_)
TrimStart(text) ==
    IF text # <<>> /\ Head(text) \in Whitespace THEN TrimStart(Tail(text)) ELSE text

RECURSIVE TrimEnd(_)
TrimEnd(text) ==
    IF text # <<>> /\ text[Len(text)] \in Whitespace
    THEN TrimEnd(SubSeq(text, 1, Len(text) - 1))
    ELSE text

(* Variant: nothing is trimmed.                                            *)
Trim_Nothing(text) == text

(* text.trim()                                                             *)
Trim(text) == TrimEnd(TrimStart(text))

ChatInit ==
    /\ mounted = TRUE
    /\ chatTimers = <<>>
    /\ memoTimers = <<>>
    /\ insightInterval = TRUE
    /\ chatHistory = <<>>
    /\ chatInput = <<>>
    /\ memo = [showMemoModal |-> FALSE, memoContent |-> <<>>, isGeneratingMemo |-> FALSE]
    /\ insights = <<MonitoringInsight>>
    /\ insightTicks = 0
    /\ staleCallbacks = 0

UserMessages == SelectSeq(chatHistory, LAMBDA m : m.sender = "user")

setChatInput ==
    /\ mounted
    /\ \E typed \in ChatTyped : chatInput' = typed
    /\ UNCHANGED <<mounted, chatTimers, memoTimers, insightInterval, chatHistory,
                   memo, insights, insightTicks, staleCallbacks>>
    /\ UNCHANGED outsideChat

(* Appends the user's message, clears the field and sets the 1 s timeout   *)
(* of the reply, which captures the message as query.                      *)
handleChat ==
    /\ mounted
    /\ Trim(chatInput) # <<>>
    /\ Len(UserMessages) < MaxMessages
    /\ chatHistory' = Append(chatHistory, [text |-> chatInput, sender |-> "user"])
    /\ chatInput' = <<>>
    /\ chatTimers' = Append(chatTimers, chatInput)
    /\ UNCHANGED <<mounted, memoTimers, insightInterval, memo, insights,
                   insightTicks, staleCallbacks>>
    /\ UNCHANGED outsideChat

ReplyText(query) ==
    <<"I've processed your request: \"">> \o query
        \o <<"\". The financial model has been updated accordingly.">>

(* The callback of the oldest chat timeout.  Nothing clears the timeout,   *)
(* so it also runs after the dashboard is gone, where its setChatHistory   *)
(* has no state to change.                                                 *)
chatReply ==
    /\ chatTimers # <<>>
    /\ chatTimers' = Tail(chatTimers)
    /\ IF mounted
       THEN /\ chatHistory' = Append(chatHistory,
                                     [text |-> ReplyText(Head(chatTimers)), sender |-> "ai"])
            /\ UNCHANGED staleCallbacks
       ELSE /\ staleCallbacks' = staleCallbacks + 1
            /\ UNCHANGED chatHistory
    /\ UNCHANGED <<mounted, memoTimers, insightInterval, chatInput, memo, insights,
                   insightTicks>>
    /\ UNCHANGED outsideChat

(* What the memo text is built from, read when generateMemo is called.     *)
MemoText ==
    [monthlySpend |-> inputs.monthlySpend, oneTimeSpend |-> inputs.oneTimeSpend,
     priceIncrease |-> inputs.priceIncrease,
     baseRunway |-> baseResult.runway, runway |-> currentResult.runway,
     baseBurn |-> baseResult.burn, burn |-> currentResult.burn]

generateMemo ==
    /\ mounted
    /\ Len(memoTimers) < MaxMemos
    /\ memo' = [memo EXCEPT !.isGeneratingMemo = TRUE, !.showMemoModal = TRUE]
    /\ memoTimers' = Append(memoTimers, MemoText)
    /\ UNCHANGED <<mounted, chatTimers, insightInterval, chatHistory, chatInput,
                   insights, insightTicks, staleCallbacks>>
    /\ UNCHANGED outsideChat

(* The callback of the oldest 2 s memo timeout; never cleared either.      *)
memoReady ==
    /\ memoTimers # <<>>
    /\ memoTimers' = Tail(memoTimers)
    /\ IF mounted
       THEN /\ memo' = [memo EXCEPT !.memoContent = <<Head(memoTimers)>>,
                                    !.isGeneratingMemo = FALSE]
            /\ UNCHANGED staleCallbacks
       ELSE /\ staleCallbacks' = staleCallbacks + 1
            /\ UNCHANGED memo
    /\ UNCHANGED <<mounted, chatTimers, insightInterval, chatHistory, chatInput,
                   insights, insightTicks>>
    /\ UNCHANGED outsideChat

closeMemoModal ==
    /\ mounted
    /\ memo.showMemoModal
    /\ memo' = [memo EXCEPT !.showMemoModal = FALSE]
    /\ UNCHANGED <<mounted, chatTimers, memoTimers, insightInterval, chatHistory,
                   chatInput, insights, insightTicks, staleCallbacks>>
    /\ UNCHANGED outsideChat

(* Variant: six entries are kept.                                          *)
FirstFive_Six(list) == SubSeq(list, 1, IF Len(list) < 6 THEN Len(list) ELSE 6)

FirstFive(list) == SubSeq(list, 1, IF Len(list) < 5 THEN Len(list) ELSE 5)

(* The callback of the 15 s insight interval.                              *)
insightTick ==
    /\ insightInterval
    /\ insightTicks < MaxInsightTicks
    /\ insightTicks' = insightTicks + 1
    /\ \E draw \in InsightDraws :
          LET filtered == SelectSeq(insights, LAMBDA insight : insight # MonitoringInsight)
          IN IF mounted
             THEN /\ insights' = FirstFive(<<mockInsights[draw]>> \o filtered)
                  /\ UNCHANGED staleCallbacks
             ELSE /\ staleCallbacks' = staleCallbacks + 1
                  /\ UNCHANGED insights
    /\ UNCHANGED <<mounted, chatTimers, memoTimers, insightInterval, chatHistory,
                   chatInput, memo>>
    /\ UNCHANGED outsideChat

(* Teardown of the dashboard: the cleanup of the insight effect clears     *)
(* the interval; no cleanup exists for the chat and memo timeouts.         *)
unmountDashboard ==
    /\ mounted
    /\ mounted' = FALSE
    /\ insightInterval' = FALSE
    /\ UNCHANGED <<chatTimers, memoTimers, chatHistory, chatInput, memo, insights,
                   insightTicks, staleCallbacks>>
    /\ UNCHANGED outsideChat

-----------------------------------------------------------------------------
(* BudgetTracker (enhanced-features/budget-tracker.tsx)                    *)

MaxBudgetItems == 4

(* Texts typed into the category, budget and actual fields.                *)
CategoryTyped == {"Travel"}
BudgetTyped == {<<"0">>, <<".", "5">>, <<"4", "0">>, <<"x">>}
ActualTyped == {<<"5", "5", "0", "0", "0">>, <<"5", "5", "0", "0", "1">>, <<>>}

InitialBudgetItems ==
    << [id |-> 1, category |-> "Marketing", budgeted |-> Number(50000, 0),
        actual |-> Number(45000, 0), month |-> "Current"],
       [id |-> 2, category |-> "Engineering", budgeted |-> Number(200000, 0),
        actual |-> Number(210000, 0), month |-> "Current"],
       [id |-> 3, category |-> "Operations", budgeted |-> Number(30000, 0),
        actual |-> Number(28000, 0), month |-> "Current"] >>

BudgetInit ==
    /\ budgetItems = InitialBudgetItems
    /\ newCategory = ""
    /\ newBudget = <<>>

setNewCategory ==
    /\ \E typed \in CategoryTyped \cup {""} : newCategory' = typed
    /\ UNCHANGED <<budgetItems, newBudget>>
    /\ UNCHANGED outsideBudget

setNewBudget ==
    /\ \E typed \in BudgetTyped : newBudget' = NumberInputValue(typed)
    /\ UNCHANGED <<budgetItems, newCategory>>
    /\ UNCHANGED outsideBudget

addBudgetItem ==
    /\ newCategory # "" /\ newBudget # <<>>
    /\ Len(budgetItems) < MaxBudgetItems
    /\ budgetItems' = Append(budgetItems,
                             [id |-> DateNow, category |-> newCategory,
                              budgeted |-> ParseInt(newBudget),
                              actual |-> Number(0, 0), month |-> "Current"])
    /\ newCategory' = ""
    /\ newBudget' = <<>>
    /\ UNCHANGED outsideBudget

(* The actual field of an item: updateActual(item.id,                      *)
(* Number.parseInt(e.target.value) || 0).                                  *)
updateActual ==
    \E i \in 1..Len(budgetItems), typed \in ActualTyped :
        LET id == budgetItems[i].id
            actual == OrZero(ParseInt(NumberInputValue(typed)))
        IN /\ budgetItems' = [j \in 1..Len(budgetItems) |->
                                 IF budgetItems[j].id = id
                                 THEN [budgetItems[j] EXCEPT !.actual = actual]
                                 ELSE budgetItems[j]]
           /\ UNCHANGED <<newCategory, newBudget>>
           /\ UNCHANGED outsideBudget

(* removeItem of the budget tracker.                                       *)
removeBudgetItem ==
    \E i \in 1..Len(budgetItems) :
        /\ budgetItems' = SelectSeq(budgetItems, LAMBDA item : item.id # budgetItems[i].id)
        /\ UNCHANGED <<newCategory, newBudget>>
        /\ UNCHANGED outsideBudget

(* ((actual - budgeted) / budgeted) * 100 compared with a whole number of  *)
(* percent, in exact arithmetic: the quotient is NaN when an operand is    *)
(* NaN or both terms are 0, and infinite when only budgeted is 0.          *)
VarianceAbove(budgeted, actual, percent) ==
    /\ ~budgeted.nan /\ ~actual.nan
    /\ LET b == budgeted.mant
           d == actual.mant - budgeted.mant
       IN IF b > 0 THEN d * 100 > percent * b
          ELSE IF b < 0 THEN d * 100 < percent * b
          ELSE d > 0

VarianceBelow(budgeted, actual, percent) ==
    /\ ~budgeted.nan /\ ~actual.nan
    /\ LET b == budgeted.mant
           d == actual.mant - budgeted.mant
       IN IF b > 0 THEN d * 100 < percent * b
          ELSE IF b < 0 THEN d * 100 > percent * b
          ELSE d < 0

(* Variant: the bounds are 9 and -9 percent.                               *)
getVarianceColor_Tighter(budgeted, actual) ==
    IF VarianceAbove(budgeted, actual, 9) THEN "text-red-500 dark:text-red-400"
    ELSE IF VarianceBelow(budgeted, actual, -9) THEN "text-green-500 dark:text-green-400"
    ELSE "text-yellow-500 dark:text-yellow-400"

getVarianceColor(budgeted, actual) ==
    IF VarianceAbove(budgeted, actual, 10) THEN "text-red-500 dark:text-red-400"
    ELSE IF VarianceBelow(budgeted, actual, -10) THEN "text-green-500 dark:text-green-400"
    ELSE "text-yellow-500 dark:text-yellow-400"

-----------------------------------------------------------------------------
(* CashFlowCategories (cash-flow-categories.tsx)                           *)

MaxCashItems == 5

(* Texts typed into the description and amount fields, and the categories  *)
(* picked.                                                                 *)
ItemDescriptionTyped == {"Refund"}
AmountTyped == {<<"-", "5", "0", "0">>, <<".", "5">>}
CategoryPicked == {"Revenue"}

categories ==
    <<"Revenue", "Personnel", "Operations", "Marketing", "R&D", "Legal", "Other">>

InitialItems ==
    << [id |-> 1, description |-> "SaaS Subscriptions", amount |-> Number(800000, 0),
        category |-> "Revenue", type |-> "inflow", recurring |-> TRUE],
       [id |-> 2, description |-> "Salaries", amount |-> Number(-600000, 0),
        category |-> "Personnel", type |-> "outflow", recurring |-> TRUE],
       [id |-> 3, description |-> "Office Rent", amount |-> Number(-50000, 0),
        category |-> "Operations", type |-> "outflow", recurring |-> TRUE],
       [id |-> 4, description |-> "Marketing Spend", amount |-> Number(-100000, 0),
        category |-> "Marketing", type |-> "outflow", recurring |-> TRUE] >>

BlankItem ==
    [description |-> "", amount |-> <<>>, category |-> "", type |-> "outflow",
     recurring |-> FALSE]

CashFlowInit ==
    /\ items = InitialItems
    /\ newItem = BlankItem

(* The onChange handlers of the new-item form: each replaces one field.    *)
SetNewItemField(field, values) ==
    \E value \in values :
        /\ newItem' = [newItem EXCEPT ![field] = value]
        /\ UNCHANGED items
        /\ UNCHANGED outsideCash

setNewItemDescription == SetNewItemField("description", ItemDescriptionTyped)

setNewItemAmount ==
    SetNewItemField("amount", {NumberInputValue(typed) : typed \in AmountTyped})

setNewItemCategory == SetNewItemField("category", CategoryPicked)

setNewItemType == SetNewItemField("type", {"inflow", "outflow"})

(* Math.abs and unary minus; both keep NaN.                                *)
Abs(num) == IF num.nan THEN NaN ELSE Number(IF num.mant < 0 THEN 0 - num.mant ELSE num.mant, num.scale)

Negated(num) == IF num.nan THEN NaN ELSE Number(0 - num.mant, num.scale)

SignedAmount(type, text) ==
    IF type = "outflow" THEN Negated(Abs(ParseInt(text))) ELSE Abs(ParseInt(text))

addItem ==
    /\ newItem.description # "" /\ newItem.amount # <<>> /\ newItem.category # ""
    /\ Len(items) < MaxCashItems
    /\ items' = Append(items,
                       [id |-> DateNow, description |-> newItem.description,
                        amount |-> SignedAmount(newItem.type, newItem.amount),
                        category |-> newItem.category, type |-> newItem.type,
                        recurring |-> newItem.recurring])
    /\ newItem' = BlankItem
    /\ UNCHANGED outsideCash

removeItem ==
    \E i \in 1..Len(items) :
        /\ items' = SelectSeq(items, LAMBDA item : item.id # items[i].id)
        /\ UNCHANGED newItem
        /\ UNCHANGED outsideCash

(* a + b on whole numbers; NaN when either is.                             *)
Plus(a, b) == IF a.nan \/ b.nan THEN NaN ELSE Number(a.mant + b.mant, 0)

RECURSIVE SumAmounts(_)
SumAmounts(list) ==
    IF list = <<>> THEN Number(0, 0)
    ELSE Plus(SumAmounts(SubSeq(list, 1, Len(list) - 1)), list[Len(list)].amount)

getCategoryTotal(category) ==
    SumAmounts(SelectSeq(items, LAMBDA item : item.category = category))

-----------------------------------------------------------------------------
(* Specifications                                                          *)

Init ==
    /\ DashboardInit
    /\ AlertsInit
    /\ ChatInit
    /\ BudgetInit
    /\ CashFlowInit
    /\ ViewInit

Next ==
    \/ ClockTick
    \/ SetMonthlySpend
    \/ SetOneTimeSpend
    \/ SetPriceIncrease
    \/ addRole
    \/ removeRole
    \/ updateRole
    \/ resetAll

Spec == Init /\ [][Next]_vars

(* The alerts panel from construction: the interval, the permission        *)
(* prompt and the buttons of the active alerts.                            *)
NextAlerts ==
    \/ alertTick
    \/ requestNotificationPermission
    \/ dismissAlert
    \/ deleteAlert

SpecAlerts == Init /\ [][NextAlerts]_vars

(* The alerts panel with templates: an alert is set up from a template     *)
(* under any condition, added, and ticked with the others.                 *)
NextAlertPanel ==
    \/ alertTick
    \/ applyTemplate
    \/ setNewAlertCondition
    \/ addAlert
    \/ dismissAlert
    \/ deleteAlert

SpecAlertPanel == Init /\ [][NextAlertPanel]_vars

(* The chat, the memo and the insights with their timers, up to and       *)
(* after the teardown of the dashboard.                                    *)
NextTimers ==
    \/ setChatInput
    \/ handleChat
    \/ chatReply
    \/ generateMemo
    \/ memoReady
    \/ closeMemoModal
    \/ insightTick
    \/ unmountDashboard

SpecTimers == Init /\ [][NextTimers]_vars

(* The chat of the mounted dashboard; the runtime runs the callback of     *)
(* every timeout that was set.                                             *)
NextChat ==
    \/ setChatInput
    \/ handleChat
    \/ chatReply

SpecChat == Init /\ [][NextChat]_vars /\ WF_vars(chatReply)

(* The insight interval from construction to the teardown.                 *)
NextInsights ==
    \/ insightTick
    \/ unmountDashboard

SpecInsights == Init /\ [][NextInsights]_vars

NextBudget ==
    \/ ClockTick
    \/ setNewCategory
    \/ setNewBudget
    \/ addBudgetItem
    \/ updateActual
    \/ removeBudgetItem

SpecBudget == Init /\ [][NextBudget]_vars

NextCashFlow ==
    \/ ClockTick
    \/ setNewItemDescription
    \/ setNewItemAmount
    \/ setNewItemCategory
    \/ setNewItemType
    \/ addItem
    \/ removeItem

SpecCashFlow == Init /\ [][NextCashFlow]_vars

(* The scenario slots: one input and the salaries edited, roles added and  *)
(* removed, both slots saved and cleared, reset.                           *)
NextScenarios ==
    \/ SetOneTimeSpend
    \/ addRole
    \/ updateSalary
    \/ removeRole
    \/ \E type \in {"A", "B"} : saveScenario(type)
    \/ \E type \in {"A", "B"} : clearScenario(type)
    \/ resetAll

SpecScenarios == Init /\ [][NextScenarios]_vars

(* The export button pressed between edits of two inputs and additions to  *)
(* the list.                                                               *)
NextExport ==
    \/ SetOneTimeSpend
    \/ SetPriceIncrease
    \/ addRole
    \/ exportToCSV

SpecExport == Init /\ [][NextExport]_vars

(* The chart on the runway tab: the inputs edited, roles added, the theme  *)
(* toggled, reset, and the chart effect after the renders that change its  *)
(* dependencies.                                                           *)
NextChart ==
    \/ SetMonthlySpend
    \/ SetOneTimeSpend
    \/ SetPriceIncrease
    \/ addRole
    \/ resetAll
    \/ toggleTheme
    \/ chartEffect

SpecChart == Init /\ [][NextChart]_vars

(* Reset of a session in which an input was edited, roles were added,     *)
(* both slots were saved and the chart was plotted.                        *)
NextReset ==
    \/ SetOneTimeSpend
    \/ addRole
    \/ \E type \in {"A", "B"} : saveScenario(type)
    \/ chartEffect
    \/ resetAll

SpecReset == Init /\ [][NextReset]_vars

-----------------------------------------------------------------------------
(* Vocabulary of the properties                                            *)

Months == 0..(ForecastMonths - 1)
LoopMonths == 1..(ForecastMonths - 1)

ParamsWith(hc) ==
    [monthlySpend |-> inputs.monthlySpend, oneTimeSpend |-> inputs.oneTimeSpend,
     priceIncrease |-> inputs.priceIncrease, headcount |-> hc]

RemoveAt(seq, i) == SubSeq(seq, 1, i - 1) \o SubSeq(seq, i + 1, Len(seq))

(* Effective revenue written out: revenue + revenue/100 per percent.       *)
EffectiveRevenue ==
    initialData.monthlyRevenue
        + (initialData.monthlyRevenue \div 100) * inputs.priceIncrease

(* Salary-months paid up to month m: each role pays once for every month   *)
(* k in 1..m with startMonth < k.                                          *)
SalaryMonths(hc, m) ==
    LET paid[i \in 0..Len(hc)] ==
            IF i = 0 THEN 0
            ELSE paid[i - 1]
                 + hc[i].salary * Cardinality({k \in 1..m : hc[i].startMonth < k})
    IN paid[Len(hc)]

(* B_m of the recurrence, in closed form.                                  *)
ClosedBalance(hc, m) ==
    initialData.bankBalance - inputs.oneTimeSpend
        - m * (initialData.monthlyCosts + inputs.monthlySpend - EffectiveRevenue)
        - SalaryMonths(hc, m)

AllSalaries(hc) ==
    LET total[i \in 0..Len(hc)] ==
            IF i = 0 THEN 0 ELSE total[i - 1] + hc[i].salary
    IN total[Len(hc)]

-----------------------------------------------------------------------------
(* C1: forecastData has exactly 25 entries and every entry, month 0        *)
(* included, is >= 0, for the base result and the current result.          *)
C1_SeriesNonNegative ==
    \A res \in {baseResult, currentResult} :
        LET fd == res.forecastData
        IN /\ Len(fd) = 25
           /\ \A m \in Months : Month(fd, m) >= 0

(* C2: forecastData[0] = max(0, bankBalance - oneTimeSpend).               *)
C2_MonthZeroFloored ==
    Month(currentResult.forecastData, 0)
        = Max(0, initialData.bankBalance - inputs.oneTimeSpend)

(* C3: for every month m in 1..24, forecastData[m] = max(0, B_m) with B    *)
(* the unclamped recurrence B_m = B_(m-1) - monthlyBurn(m); a floored      *)
(* entry never feeds back into later entries.                              *)
C3_EntriesFollowUnclampedBalance ==
    LET fd == currentResult.forecastData
    IN /\ Len(fd) = ForecastMonths
       /\ \A m \in LoopMonths : Month(fd, m) = Max(0, ClosedBalance(headcount, m))

(* C3 witness: an entry was floored at 0 and a later entry is positive     *)
(* again, so feeding the floored value back would show.                    *)
C3_Witness ==
    /\ ClosedBalance(headcount, 1) < 0
    /\ Month(currentResult.forecastData, 1) = 0
    /\ \E m \in LoopMonths : Month(currentResult.forecastData, m) > 0

(* C4: a role with startMonth = s adds its salary to the burn of month m   *)
(* exactly when s < m; compared with the list without it, forecastData of  *)
(* months 0..s is the same and the balance step of every month m > s is    *)
(* lower by the salary.                                                    *)
C4_StrictStartMonth ==
    \A i \in 1..Len(headcount) :
        LET r == headcount[i]
            with == ParamsWith(headcount)
            without == ParamsWith(RemoveAt(headcount, i))
            runWith == ForecastRun(with)
            runWithout == ForecastRun(without)
            share(m) == IF r.startMonth < m THEN r.salary ELSE 0
        IN /\ \A m \in LoopMonths :
                  /\ MonthlyBurn(with, m) = MonthlyBurn(without, m) + share(m)
                  /\ runWith.balances[m + 1] - runWith.balances[m]
                        = runWithout.balances[m + 1] - runWithout.balances[m] - share(m)
           /\ \A m \in Months :
                  m <= r.startMonth =>
                      Month(runWith.forecast, m) = Month(runWithout.forecast, m)

(* C4 witness: a paid role starting in month 3 is in the list and the      *)
(* series of month 4 shows its salary while month 3 does not.              *)
C4_Witness ==
    \E i \in 1..Len(headcount) :
        LET without == calculateForecast(ParamsWith(RemoveAt(headcount, i))).forecastData
        IN /\ headcount[i].startMonth = 3
           /\ headcount[i].salary > 0
           /\ Month(currentResult.forecastData, 3) = Month(without, 3)
           /\ Month(currentResult.forecastData, 4) < Month(without, 4)

C6_RunwayGuardsDivision ==
    \A res \in {baseResult, currentResult} :
        /\ res.runway.inf <=> res.burn <= 0
        /\ res.runway.den # 0
        /\ ~res.runway.inf =>
              /\ res.runway.den = res.burn
              /\ res = currentResult =>
                    res.runway.num = initialData.bankBalance - inputs.oneTimeSpend
        /\ (res = currentResult /\ headcount = <<>>
                /\ EffectiveRevenue > initialData.monthlyCosts + inputs.monthlySpend)
             => res.runway.inf

(* C6 witness: the burn is exactly 0 with roles on the list, the case      *)
(* where an unguarded division would divide by zero.                       *)
C6_Witness ==
    /\ headcount # <<>>
    /\ currentResult.burn = 0
    /\ currentResult.runway.inf

(* C7: the runway is +infinity or a non-negative number.                   *)
C7_RunwayNonNegative ==
    \/ currentResult.runway.inf
    \/ /\ currentResult.runway.den > 0
       /\ currentResult.runway.num >= 0

(* C8: the base case (bankBalance 5000000, revenue 800000, costs 1200000,  *)
(* inputs 0, no headcount) has burn 400000, runway 12.5,                   *)
(* forecastData[1] = 4600000, forecastData[12] = 200000 and                *)
(* forecastData[13..24] = 0, whatever the current inputs and headcount.    *)
C8_BaseCase ==
    LET base == baseResult
        fd == base.forecastData
    IN /\ base.burn = 400000
       /\ ~base.runway.inf
       /\ 2 * base.runway.num = 25 * base.runway.den
       /\ Month(fd, 0) = 5000000
       /\ Month(fd, 1) = 4600000
       /\ Month(fd, 12) = 200000
       /\ \A m \in 13..24 : Month(fd, m) = 0

(* C8 witness: the base case is rendered while the current scenario has    *)
(* other inputs and a paid role.                                           *)
C8_Witness ==
    /\ inputs.monthlySpend # 0
    /\ \E i \in 1..Len(headcount) : headcount[i].salary > 0
    /\ currentResult.burn # baseResult.burn
    /\ baseResult.burn = 400000

(* C9: with monthlySpend = oneTimeSpend = priceIncrease = 0, no headcount  *)
(* and monthlyCosts > monthlyRevenue the series is non-increasing, and     *)
(* once an entry is 0 every later entry is 0.                              *)
C9_MonotonicDecrease ==
    (/\ inputs.monthlySpend = 0
     /\ inputs.oneTimeSpend = 0
     /\ inputs.priceIncrease = 0
     /\ headcount = <<>>
     /\ initialData.monthlyCosts > initialData.monthlyRevenue)
    => LET fd == currentResult.forecastData
       IN /\ \A m \in 0..23 : Month(fd, m + 1) <= Month(fd, m)
          /\ \A m \in Months : \A k \in Months :
                (Month(fd, m) = 0 /\ k > m) => Month(fd, k) = 0

(* C9 witness: the inputs are back at 0 and the list empty after edits,    *)
(* and the series has reached the floor before month 24.                   *)
C9_Witness ==
    /\ inputs = [monthlySpend |-> 0, oneTimeSpend |-> 0, priceIncrease |-> 0]
    /\ headcount = <<>>
    /\ scenarioCounter > 0
    /\ Month(currentResult.forecastData, 12) > 0
    /\ Month(currentResult.forecastData, 13) = 0

(* C10: if the monthly burn is negative in every month 1..24, the series   *)
(* is non-decreasing over months 0..24, every balance step adds exactly    *)
(* -monthlyBurn, and no entry is capped from above.                        *)
C10_GrowthUncapped ==
    (\A m \in LoopMonths : MonthlyBurn(inputs, m) < 0)
    => LET run == ForecastRun(inputs)
           fd == currentResult.forecastData
       IN /\ \A m \in 0..23 : Month(fd, m) <= Month(fd, m + 1)
          /\ \A m \in LoopMonths :
                /\ run.balances[m + 1] = run.balances[m] - MonthlyBurn(inputs, m)
                /\ Month(fd, m) >= ClosedBalance(headcount, m)
                /\ ClosedBalance(headcount, m) > ClosedBalance(headcount, m - 1)

(* C10 witness: negative burn in every month with a paid role on the list, *)
(* and the series ends above the opening bank balance.                     *)
C10_Witness ==
    /\ \A m \in LoopMonths : MonthlyBurn(inputs, m) < 0
    /\ \E i \in 1..Len(headcount) : headcount[i].salary > 0
    /\ Month(currentResult.forecastData, 24) > initialData.bankBalance

-----------------------------------------------------------------------------
(* Vocabulary of the alert properties                                      *)

(* A step of the simulation interval.                                      *)
IsAlertTick == alertTicks' # alertTicks

(* The alert satisfies its (condition, threshold) pair at the value.       *)
Satisfies(alert, value) ==
    /\ ~alert.threshold.nan
    /\ \/ alert.condition = "below" /\ value * Pow10(alert.threshold.scale) < alert.threshold.mant * 100
       \/ alert.condition = "above" /\ value * Pow10(alert.threshold.scale) > alert.threshold.mant * 100

(* The value is on the threshold or on the side that does not satisfy.     *)
OffSide(alert, value) ==
    /\ ~alert.threshold.nan
    /\ \/ alert.condition = "below" /\ value * Pow10(alert.threshold.scale) >= alert.threshold.mant * 100
       \/ alert.condition = "above" /\ value * Pow10(alert.threshold.scale) <= alert.threshold.mant * 100

-----------------------------------------------------------------------------
(* C12: a simulation tick turns an inactive alert active only on the       *)
(* rising edge (condition 'below' with old value >= threshold and new      *)
(* value < threshold, or 'above' with old value <= threshold and new       *)
(* value > threshold); an inactive alert whose value satisfies the         *)
(* condition before and after the tick stays inactive; an inactive alert   *)
(* with condition 'equals' stays inactive.                                 *)
C12_ActivationOnRisingEdge ==
    [][IsAlertTick =>
        \A i \in 1..Len(alerts) :
            LET old == alerts[i]
                new == alerts'[i]
            IN ~old.isActive =>
                 /\ new.isActive =>
                       /\ OffSide(old, old.currentValue)
                       /\ Satisfies(old, new.currentValue)
                 /\ Satisfies(old, old.currentValue) /\ Satisfies(old, new.currentValue)
                       => ~new.isActive
                 /\ old.condition = "equals" => ~new.isActive]_vars

(* A tick has just activated the revenue alert on its rising edge, while   *)
(* the dismissed runway alert, still under its threshold, and a dismissed  *)
(* 'equals' alert stayed inactive.                                         *)
C12_Witness ==
    /\ notified = {3}
    /\ \E i \in 1..Len(alerts) :
          alerts[i].id = 3 /\ alerts[i].isActive /\ Satisfies(alerts[i], alerts[i].currentValue)
    /\ \E i \in 1..Len(alerts) :
          /\ alerts[i].id = 1 /\ ~alerts[i].isActive
          /\ Satisfies(alerts[i], alerts[i].currentValue)
    /\ \E i \in 1..Len(alerts) :
          alerts[i].condition = "equals" /\ ~alerts[i].isActive

-----------------------------------------------------------------------------
(* C13: on every simulation tick in which an alert's value moves from not  *)
(* satisfying to satisfying its (condition, threshold) pair, the alert is  *)
(* active after the tick and, when its pushNotifications flag is set, a    *)
(* notification is requested on that tick, whether or not the alert was    *)
(* active before.                                                          *)
C13_EveryCrossingFires ==
    [][IsAlertTick =>
        \A i \in 1..Len(alerts) :
            OffSide(alerts[i], alerts[i].currentValue)
              /\ Satisfies(alerts[i], alerts'[i].currentValue)
            => /\ alerts'[i].isActive
               /\ alerts[i].pushNotifications => alerts[i].id \in notified']_vars

(* C13, amended: on such a tick an alert that was inactive is active       *)
(* afterwards and a notification is requested for it exactly when its      *)
(* pushNotifications flag is set; an alert that was already active stays   *)
(* active and no notification is requested for it.                         *)
C13_InactiveCrossingFires ==
    [][IsAlertTick =>
        \A i \in 1..Len(alerts) :
            OffSide(alerts[i], alerts[i].currentValue)
              /\ Satisfies(alerts[i], alerts'[i].currentValue)
            => /\ alerts'[i].isActive
               /\ IF alerts[i].isActive
                  THEN alerts[i].id \notin notified'
                  ELSE alerts[i].id \in notified' <=> alerts[i].pushNotifications]_vars

(* The revenue alert, activated and notified by its crossing on the sixth  *)
(* tick, fell under its threshold on the seventh and has crossed it again  *)
(* on the eighth (125000 after six draws of -0.05 and two of 0.049): it is *)
(* active and nothing was requested on this tick.                          *)
C13_Witness ==
    /\ alertTicks = 8
    /\ notified = {}
    /\ \E i \in 1..Len(alerts) :
          /\ alerts[i].id = 3 /\ alerts[i].isActive /\ alerts[i].pushNotifications
          /\ Satisfies(alerts[i], alerts[i].currentValue)
          /\ alerts[i].currentValue = 10111195

-----------------------------------------------------------------------------
(* C14: after the dashboard is torn down no timer it started is pending    *)
(* (the insight interval, the chat-reply timeouts and the memo timeouts    *)
(* are cleared on teardown) and no timer callback has called a state       *)
(* setter of the torn-down dashboard.                                      *)
C14_TimersClearedOnTeardown ==
    /\ ~mounted => chatTimers = <<>> /\ memoTimers = <<>> /\ ~insightInterval
    /\ staleCallbacks = 0

-----------------------------------------------------------------------------
(* C15: a budget item with budgeted > 0 is shown red exactly when its      *)
(* actual is more than 10% above budgeted, green exactly when it is more   *)
(* than 10% below, and yellow otherwise; +10% and -10% are yellow.         *)
C15_VarianceClasses ==
    \A i \in 1..Len(budgetItems) :
        LET item == budgetItems[i]
            b == item.budgeted.mant
            a == item.actual.mant
            color == getVarianceColor(item.budgeted, item.actual)
        IN ~item.budgeted.nan /\ ~item.actual.nan /\ b > 0 =>
             /\ color = "text-red-500 dark:text-red-400" <=> 10 * a > 11 * b
             /\ color = "text-green-500 dark:text-green-400" <=> 10 * a < 9 * b
             /\ color = "text-yellow-500 dark:text-yellow-400"
                   <=> 9 * b <= 10 * a /\ 10 * a <= 11 * b

(* The list shows an item exactly 10% over (yellow), one exactly 10%       *)
(* under (yellow), one further over (red) and one further under (green).   *)
C15_Witness ==
    /\ \E i \in 1..Len(budgetItems) :
          /\ budgetItems[i].budgeted = Number(50000, 0)
          /\ budgetItems[i].actual = Number(55000, 0)
          /\ getVarianceColor(budgetItems[i].budgeted, budgetItems[i].actual)
                = "text-yellow-500 dark:text-yellow-400"
    /\ \E i \in 1..Len(budgetItems) :
          /\ budgetItems[i].budgeted = Number(30000, 0)
          /\ budgetItems[i].actual = Number(55001, 0)
          /\ getVarianceColor(budgetItems[i].budgeted, budgetItems[i].actual)
                = "text-red-500 dark:text-red-400"
    /\ \E i \in 1..Len(budgetItems) :
          /\ budgetItems[i].budgeted = Number(200000, 0)
          /\ budgetItems[i].actual = Number(0, 0)
          /\ getVarianceColor(budgetItems[i].budgeted, budgetItems[i].actual)
                = "text-green-500 dark:text-green-400"

-----------------------------------------------------------------------------
(* C16: no budget item has budgeted = 0, so the variance and progress      *)
(* percentages of the render are never computed with a zero divisor.       *)
C16_NoZeroBudgeted ==
    \A i \in 1..Len(budgetItems) :
        ~(~budgetItems[i].budgeted.nan /\ budgetItems[i].budgeted.mant = 0)

-----------------------------------------------------------------------------
(* C17: every cash-flow item of type 'inflow' has amount >= 0 and every    *)
(* item of type 'outflow' has amount <= 0 (a NaN amount is neither), and   *)
(* the total of a category is the sum of the amounts of exactly the items  *)
(* of that category.                                                       *)
RECURSIVE AmountsOf(_, _)
AmountsOf(category, n) ==
    IF n = 0 THEN Number(0, 0)
    ELSE IF items[n].category = category
         THEN Plus(AmountsOf(category, n - 1), items[n].amount)
         ELSE AmountsOf(category, n - 1)

C17_SignConvention ==
    /\ \A i \in 1..Len(items) :
          /\ items[i].type = "inflow" => ~items[i].amount.nan /\ items[i].amount.mant >= 0
          /\ items[i].type = "outflow" => ~items[i].amount.nan /\ items[i].amount.mant <= 0
    /\ \A c \in 1..Len(categories) :
          getCategoryTotal(categories[c]) = AmountsOf(categories[c], Len(items))

-----------------------------------------------------------------------------
(* C18: no number stored from a numeric input is NaN: a budget amount or   *)
(* an actual whose text does not parse is stored as 0.                     *)
C18_NoNaNStored ==
    \A i \in 1..Len(budgetItems) :
        ~budgetItems[i].budgeted.nan /\ ~budgetItems[i].actual.nan

-----------------------------------------------------------------------------
(* C19: no two roles of the headcount list have the same id.               *)
C19_RoleIdsUnique ==
    \A i, j \in 1..Len(headcount) :
        i # j => headcount[i].id # headcount[j].id

-----------------------------------------------------------------------------
(* C20: a step of addRole, updateRole or removeRole (the steps that count  *)
(* scenarioCounter up) leaves inputs and the saved scenarios alone and     *)
(* either appends one role with empty label, salary 100000 and startMonth  *)
(* 0 after the unchanged existing roles, or changes nothing but one field  *)
(* of the roles with one id, or removes the roles with one id and nothing  *)
(* else, keeping the order.                                                *)
RoleFields == {"id", "role", "salary", "startMonth"}

IsRoleStep == scenarioCounter' = scenarioCounter + 1

C20_HeadcountFrame ==
    [][IsRoleStep =>
        /\ inputs' = inputs /\ scenarioA' = scenarioA /\ scenarioB' = scenarioB
        /\ \/ /\ Len(headcount') = Len(headcount) + 1
              /\ \A j \in 1..Len(headcount) : headcount'[j] = headcount[j]
              /\ headcount'[Len(headcount')].role = ""
              /\ headcount'[Len(headcount')].salary = 100000
              /\ headcount'[Len(headcount')].startMonth = 0
           \/ /\ Len(headcount') = Len(headcount)
              /\ \E i \in 1..Len(headcount), field \in RoleFields \ {"id"} :
                    \A j \in 1..Len(headcount) :
                        IF headcount[j].id = headcount[i].id
                        THEN \A g \in RoleFields \ {field} :
                                 headcount'[j][g] = headcount[j][g]
                        ELSE headcount'[j] = headcount[j]
           \/ \E i \in 1..Len(headcount) :
                 headcount' = SelectSeq(headcount, LAMBDA r : r.id # headcount[i].id)]_vars

(* Two roles with different ids, of which the first was given a label, a   *)
(* salary and a start month while the second kept the defaults, and a      *)
(* monthly spend entered before.                                          *)
C20_Witness ==
    /\ Len(headcount) = 2
    /\ headcount[1].id # headcount[2].id
    /\ headcount[1].role = "Engineer" /\ headcount[1].salary = 500000
    /\ headcount[2].role = "" /\ headcount[2].salary = 100000
    /\ headcount[2].startMonth = 0
    /\ inputs.monthlySpend = 2000000

-----------------------------------------------------------------------------
(* Vocabulary of the scenario properties                                   *)

(* A step that ends in the state resetAll sets.                            *)
IsResetStep ==
    /\ inputs' = [monthlySpend |-> 0, oneTimeSpend |-> 0, priceIncrease |-> 0]
    /\ headcount' = <<>>
    /\ scenarioA' = Null
    /\ scenarioB' = Null
    /\ scenarioCounter' = 0

(* An edit of an input field, or addRole, updateRole or removeRole.        *)
IsEditStep ==
    /\ inputs' # inputs \/ headcount' # headcount \/ IsRoleStep
    /\ ~IsResetStep

(* The arguments of calculateForecast for a saved scenario.                *)
ScenarioParams(scenario) ==
    [monthlySpend |-> scenario.inputs.monthlySpend,
     oneTimeSpend |-> scenario.inputs.oneTimeSpend,
     priceIncrease |-> scenario.inputs.priceIncrease,
     headcount |-> scenario.headcount]

-----------------------------------------------------------------------------
(* C21: a saved scenario is a snapshot.  An input edit, addRole,           *)
(* updateRole or removeRole changes no slot; a step that changes a slot    *)
(* leaves the other slot alone unless it is resetAll; and a slot changes   *)
(* only to the scenario of the current state (saveScenario), to null       *)
(* (clearScenario), or by resetAll.                                        *)
C21_ScenarioIsSnapshot ==
    [][/\ IsEditStep => scenarioA' = scenarioA /\ scenarioB' = scenarioB
       /\ (scenarioA' # scenarioA /\ scenarioB' # scenarioB) => IsResetStep
       /\ scenarioA' # scenarioA =>
             \/ IsResetStep
             \/ /\ scenarioA' \in {Scenario, Null}
                /\ UNCHANGED <<inputs, headcount, scenarioCounter>>
       /\ scenarioB' # scenarioB =>
             \/ IsResetStep
             \/ /\ scenarioB' \in {Scenario, Null}
                /\ UNCHANGED <<inputs, headcount, scenarioCounter>>]_vars

(* Slot A still holds what was saved before the one-time spend and the     *)
(* roles were edited and before slot B was saved with the present state.   *)
C21_Witness ==
    /\ scenarioA # Null /\ scenarioB # Null
    /\ scenarioA.inputs # inputs
    /\ scenarioA.headcount # headcount
    /\ scenarioA.headcount # <<>>
    /\ scenarioB.inputs = inputs
    /\ scenarioB.headcount = headcount
    /\ scenarioB.forecastData # scenarioA.forecastData

-----------------------------------------------------------------------------
(* C23: the runway never overstates the plotted series.  With every        *)
(* salary >= 0 and a finite runway r, forecastData[m] > 0 for every month  *)
(* m in 1..24 with m < r.                                                  *)
C23_RunwayWithinSeries ==
    LET r == currentResult.runway
        fd == currentResult.forecastData
    IN ((\A i \in 1..Len(headcount) : headcount[i].salary >= 0) /\ ~r.inf)
       => \A m \in LoopMonths : m * r.den < r.num => Month(fd, m) > 0

(* A paid role that starts in month 3 gives a finite runway between        *)
(* months 5 and 6; the series is positive up to there and, the role being  *)
(* unpaid in the first months, still positive in month 6.                  *)
C23_Witness ==
    LET r == currentResult.runway
        fd == currentResult.forecastData
    IN /\ \A i \in 1..Len(headcount) : headcount[i].salary >= 0
       /\ \E i \in 1..Len(headcount) :
             headcount[i].salary = 500000 /\ headcount[i].startMonth = 3
       /\ ~r.inf
       /\ 5 * r.den < r.num /\ r.num < 6 * r.den
       /\ \A m \in 1..5 : Month(fd, m) > 0
       /\ Month(fd, 6) > 0
       /\ Month(fd, 24) = 0

-----------------------------------------------------------------------------
(* C24: the chart tracks the current forecast.  After every change of     *)
(* monthlySpend, oneTimeSpend or priceIncrease and after resetAll, as      *)
(* after addRole, updateRole and removeRole, the chart is re-initialised:  *)
(* in every state an initialised chart either is due to be re-initialised  *)
(* (the dependencies of the chart effect have changed since its last run)  *)
(* or plots as 'Current Scenario' the forecastData of the current inputs   *)
(* and headcount.                                                          *)
C24_ChartTracksForecast ==
    (chart # Null /\ chartDeps = ChartDepsNow)
        => chart.current = currentResult.forecastData

-----------------------------------------------------------------------------
(* C25: for every non-null slot S, S.runway and S.forecastData are the     *)
(* result of calculateForecast on S.inputs and S.headcount.                *)
C25_ScenarioConsistent ==
    \A S \in {scenarioA, scenarioB} :
        S # Null =>
            LET result == calculateForecast(ScenarioParams(S))
            IN /\ S.runway = result.runway
               /\ S.forecastData = result.forecastData

(* A slot holds a scenario with a paid role and a one-time spend while the *)
(* current state has neither, so the result of the current state differs   *)
(* from the stored one.                                                    *)
C25_Witness ==
    /\ scenarioA # Null
    /\ scenarioA.inputs.oneTimeSpend = 5000000
    /\ \E i \in 1..Len(scenarioA.headcount) : scenarioA.headcount[i].salary = 500000
    /\ headcount = <<>>
    /\ inputs.oneTimeSpend = 0
    /\ scenarioA.forecastData # currentResult.forecastData
    /\ scenarioA.runway # currentResult.runway

-----------------------------------------------------------------------------
(* Vocabulary of the export property                                       *)

(* The fields of a line: the pieces between its commas.                    *)
RECURSIVE Fields(_)
Fields(line) ==
    IF \A k \in 1..Len(line) : line[k] # "," THEN <<line>>
    ELSE LET k == CHOOSE j \in 1..Len(line) :
                      line[j] = "," /\ \A h \in 1..(j - 1) : line[h] # ","
         IN <<SubSeq(line, 1, k - 1)>> \o Fields(SubSeq(line, k + 1, Len(line)))

(* The decimal numeral of a whole number.                                  *)
Numeral(n) == IF n < 0 THEN <<"-">> \o NumToText(0 - n) ELSE NumToText(n)

(* The field is the number written with or without digit grouping by "."   *)
(* (a "," inside a field would end the field).                             *)
Carries(field, n) ==
    SelectSeq(field, LAMBDA c : c # ".") = Numeral(n)

(* C22: the exported file has, in this order, the header row (Metric,      *)
(* Base Case, Current Scenario), five summary rows, one blank row, the     *)
(* header row (Month, Base Forecast, Current Forecast) and exactly 25      *)
(* rows labelled M0..M24 in ascending order; row Mi has the three fields   *)
(* label, base forecast of month i and current forecast of month i, and a  *)
(* value of 0 is the field 0.                                              *)
C22_CsvLayout ==
    [][csvContent' # csvContent =>
        LET rows == [r \in 1..Len(csvContent') |-> Fields(csvContent'[r])]
            base == baseResult.forecastData
            current == currentResult.forecastData
        IN /\ Len(rows) = 33
           /\ rows[1] = <<<<"Metric">>, <<"Base Case">>, <<"Current Scenario">>>>
           /\ rows[2][1] = <<"Runway (months)">>
           /\ rows[3][1] = <<"Monthly Burn (Rs)">>
           /\ rows[4][1] = <<"Monthly Spend (Rs)">>
           /\ rows[5][1] = <<"One-time Spend (Rs)">>
           /\ rows[6][1] = <<"Price Change (%)">>
           /\ rows[7] = <<<<>>>>
           /\ rows[8] = <<<<"Month">>, <<"Base Forecast">>, <<"Current Forecast">>>>
           /\ \A i \in Months :
                 /\ Len(rows[9 + i]) = 3
                 /\ rows[9 + i][1] = <<"M">> \o NumToText(i)
                 /\ Carries(rows[9 + i][2], Month(base, i))
                 /\ Carries(rows[9 + i][3], Month(current, i))
                 /\ Month(current, i) = 0 => rows[9 + i][3] = <<"0">>]_vars

-----------------------------------------------------------------------------
-----------------------------------------------------------------------------
(* C27: a simulation tick keeps the list of alerts and, in each alert,     *)
(* everything but currentValue and isActive, and isActive changes only     *)
(* from false to true; so the ids on the list are the same after a tick    *)
(* (a deleted alert does not reappear), and an alert that is on the list   *)
(* before and after a step and turns from active to inactive does so in a  *)
(* step that is no tick and changes nothing else (dismissAlert).           *)
C27_TickFrame ==
    [][/\ IsAlertTick =>
             /\ Len(alerts') = Len(alerts)
             /\ \A i \in 1..Len(alerts) :
                   /\ [alerts'[i] EXCEPT !.currentValue = alerts[i].currentValue,
                                         !.isActive = alerts[i].isActive] = alerts[i]
                   /\ alerts[i].isActive => alerts'[i].isActive
       /\ (\E i \in 1..Len(alerts), j \in 1..Len(alerts') :
               /\ alerts'[j].id = alerts[i].id
               /\ alerts[i].isActive /\ ~alerts'[j].isActive)
            => /\ ~IsAlertTick
               /\ Len(alerts') = Len(alerts)
               /\ \A i \in 1..Len(alerts) :
                     [alerts'[i] EXCEPT !.isActive = alerts[i].isActive] = alerts[i]]_vars

(* After eight ticks: the runway alert was deleted and is not on the list, *)
(* the burn-rate alert was dismissed and is inactive with a value the      *)
(* ticks have moved, and the revenue alert has been activated by a tick.   *)
C27_Witness ==
    /\ alertTicks = 8
    /\ Len(alerts) = 2
    /\ alerts[1].id = 2 /\ ~alerts[1].isActive /\ alerts[1].currentValue # 6200000
    /\ alerts[1].threshold = Number(50000, 0) /\ alerts[1].condition = "above"
    /\ alerts[2].id = 3 /\ alerts[2].isActive
    /\ alerts[2].threshold = Number(100000, 0)

-----------------------------------------------------------------------------
(* C28: an alert created by addAlert (its id is a Date.now() value) starts *)
(* active with currentValue 0, has currentValue 0 after every later step,  *)
(* ticks included, and once inactive is not activated by a tick, whatever  *)
(* its threshold and condition.                                            *)
IsCreated(alert) == alert.id >= EpochMs

C28_CreatedAlertStaysAtZero ==
    [][/\ \A j \in 1..Len(alerts') :
             IsCreated(alerts'[j]) => alerts'[j].currentValue = 0
       /\ Len(alerts') = Len(alerts) + 1 =>
             /\ IsCreated(alerts'[Len(alerts')])
             /\ alerts'[Len(alerts')].isActive
       /\ IsAlertTick =>
             \A i \in 1..Len(alerts) :
                 (IsCreated(alerts[i]) /\ ~alerts[i].isActive) => ~alerts'[i].isActive]_vars

(* After eight ticks a created alert with condition 'below' and threshold  *)
(* 3, whose value 0 satisfies the condition, is dismissed and still        *)
(* inactive at value 0.                                                    *)
C28_Witness ==
    /\ alertTicks = 8
    /\ \E i \in 1..Len(alerts) :
          /\ IsCreated(alerts[i])
          /\ alerts[i].condition = "below" /\ alerts[i].threshold = Number(3, 0)
          /\ Satisfies(alerts[i], alerts[i].currentValue)
          /\ alerts[i].currentValue = 0
          /\ ~alerts[i].isActive

-----------------------------------------------------------------------------
(* Vocabulary of the chat property                                         *)

AiMessages == SelectSeq(chatHistory, LAMBDA m : m.sender = "ai")

IsBlank(text) == \A k \in 1..Len(text) : text[k] = " "

(* The text of the reply quotes the text of the message.                   *)
Quotes(reply, message) ==
    \E k \in 1..Len(reply) :
        /\ k + Len(message) + 1 <= Len(reply)
        /\ SubSeq(reply, k + 1, k + Len(message)) = message
        /\ SubSeq(reply, 1, k) = <<"I've processed your request: \"">>
        /\ Len(reply) = k + Len(message) + 1

(* C29: no user entry is empty or whitespace only (handleChat with such    *)
(* input changes nothing); a handleChat step appends the typed text as a   *)
(* user entry at once; every message has either its timeout pending or     *)
(* exactly one AI reply, so the AI entries are never more than the user    *)
(* entries; the k-th AI entry quotes the k-th user entry (replies come in  *)
(* the order of the messages, also when several are pending at once); and  *)
(* every message sent is eventually replied to.                            *)
C29_ChatCorrespondence ==
    /\ [](/\ \A k \in 1..Len(UserMessages) : ~IsBlank(UserMessages[k].text)
          /\ Len(AiMessages) <= Len(UserMessages)
          /\ Len(AiMessages) + Len(chatTimers) = Len(UserMessages)
          /\ \A k \in 1..Len(AiMessages) :
                Quotes(AiMessages[k].text, UserMessages[k].text))
    /\ [][Len(UserMessages') > Len(UserMessages) =>
              /\ chatHistory' = Append(chatHistory, [text |-> chatInput, sender |-> "user"])
              /\ chatInput' = <<>>]_vars
    /\ \A n \in 1..MaxMessages :
          (Len(UserMessages) >= n) ~> (Len(AiMessages) >= n)

(* Two different messages were sent while the reply to the first was       *)
(* pending, and the replies came in the order of the messages.             *)
C29_Witness ==
    /\ Len(chatHistory) = 4
    /\ chatHistory[1].sender = "user" /\ chatHistory[2].sender = "user"
    /\ chatHistory[1].text = <<" ", "o", "k">> /\ chatHistory[2].text = <<"h", "i">>
    /\ chatHistory[3].sender = "ai" /\ chatHistory[4].sender = "ai"
    /\ Quotes(chatHistory[3].text, <<" ", "o", "k">>)
    /\ Quotes(chatHistory[4].text, <<"h", "i">>)
    /\ chatTimers = <<>>

-----------------------------------------------------------------------------
(* C30: the insights list holds between 1 and 5 entries; from the first    *)
(* tick on the 'AI is monitoring ...' placeholder is absent; a tick puts   *)
(* the generated insight first, followed by the older insights in their    *)
(* order, cut to five entries.                                             *)
C30_InsightsBounded ==
    /\ [](/\ 1 <= Len(insights) /\ Len(insights) <= 5
          /\ insightTicks >= 1 =>
                \A k \in 1..Len(insights) : insights[k] # MonitoringInsight)
    /\ [][insightTicks' # insightTicks =>
              LET older == SelectSeq(insights, LAMBDA insight : insight # MonitoringInsight)
              IN /\ \E d \in 1..Len(mockInsights) : insights'[1] = mockInsights[d]
                 /\ Len(insights') = (IF Len(older) < 4 THEN Len(older) + 1 ELSE 5)
                 /\ Tail(insights') = SubSeq(older, 1, Len(insights') - 1)]_vars

(* After six ticks the list is full: the five latest insights, two         *)
(* different ones among them, the latest first, and the insight of the     *)
(* first tick dropped.                                                     *)
C30_Witness ==
    /\ insightTicks = 6
    /\ insights = <<mockInsights[2], mockInsights[1], mockInsights[1],
                    mockInsights[2], mockInsights[2]>>

====
